---- MODULE Spec2Model ----
(***************************************************************************)
(* Discovery-response synthesis of the mesh control plane: the Cluster     *)
(* Discovery (CDS) and Listener Discovery (LDS) NewResponse handlers, the   *)
(* cluster deduplicator, the authorized-source resolver, and the sidecar    *)
(* injector's mustInject decision.                                          *)
(***************************************************************************)
EXTENDS Naturals, Sequences, FiniteSets, TLC

VARIABLES
    proxy,            \* proxy.GetService(): the requesting proxy's service identity
    policies,         \* what catalog.ListTrafficRoutes returns when it succeeds
    catalogErr,       \* TRUE when catalog.ListTrafficRoutes returns an error
    kind,             \* which NewResponse is running: "idle", "CDS" or "LDS"
    pc,               \* position inside the running NewResponse
    idx,              \* loop index (policy loop, then marshal loop)
    clusterFactories, \* cds.NewResponse: var clusterFactories []xds.Cluster
    lookupFailed,     \* a local-cluster catalog lookup failed during this call
    serverNames,      \* lds.NewResponse: serverNames
    listeners,        \* lds.NewResponse: <<clientListener, serverListener>> once built
    connManagers,     \* lds.NewResponse: marshalled connection managers so far
    resources,        \* resp.Resources of the response under construction
    marshalLog,       \* outcome of every ptypes.MarshalAny call of this call, in order
    ret,              \* what NewResponse returned: [state |-> "none" | "ok" | "err", ...]
    cancelled,        \* ctx has been cancelled by the caller
    slice,            \* uniques: the input slice
    uniqOut,          \* uniques: <<>> before the call, <<result>> after it
    namespace,        \* mustInject: the request's namespace
    monitored,        \* namespaceController: the set of monitored namespaces
    annotations,      \* mustInject: pod.ObjectMeta.Annotations
    injectRet         \* mustInject: <<>> before the call, <<[inject, err]>> after it

xdsVars == <<proxy, policies, catalogErr, kind, pc, idx, clusterFactories, lookupFailed,
             serverNames, listeners, connManagers, resources, marshalLog, ret, cancelled>>
uniquesVars == <<slice, uniqOut>>
injectVars == <<namespace, monitored, annotations, injectRet>>
vars == <<xdsVars, uniquesVars, injectVars>>

----------------------------------------------------------------------------
(* Bounds of the model *)

\* the most entries (services and cluster names, over all its traffic policies) of a
\* policy list the catalog returns
MaxWeight == 6
\* the longest slice given to uniques
MaxSlice == 4

----------------------------------------------------------------------------
(* Helpers over sequences *)

SeqsUpTo(S, n) == UNION {[1..k -> S] : k \in 0..n}

Range(s) == {s[i] : i \in 1..Len(s)}

----------------------------------------------------------------------------
(* Data: service identities, traffic policies, clusters *)

svcA == [Namespace |-> "ns", Service |-> "svcA"]
svcB == [Namespace |-> "ns", Service |-> "svcB"]

Services == {svcA, svcB}

ClusterNames == {"c1", "c2"}

\* endpoint.NamespacedService.String(): "<namespace>/<service>"
String(svc) == svc.Namespace \o "/" \o svc.Service

\* a traffic policy with w entries: Source and Destination each name at least one service
TrafficPoliciesOfWeight(w) ==
    UNION { { [Source |-> [Services |-> ss, Clusters |-> sc],
               Destination |-> [Services |-> ds, Clusters |-> dc]] :
                 ss \in [1..n[1] -> Services], sc \in [1..n[2] -> ClusterNames],
                 ds \in [1..n[3] -> Services], dc \in [1..n[4] -> ClusterNames] } :
            n \in {m \in [1..4 -> 0..w] :
                      m[1] >= 1 /\ m[3] >= 1 /\ m[1] + m[2] + m[3] + m[4] = w} }

RECURSIVE TrafficPolicyLists(_)
\* the policy lists of at most w entries in all
TrafficPolicyLists(w) ==
    {<<>>} \cup
    UNION { { <<p>> \o rest : p \in TrafficPoliciesOfWeight(k),
                               rest \in TrafficPolicyLists(w - k) } : k \in 2..w }

\* envoy.LocalClusterSuffix
LocalClusterSuffix == "-local"

\* envoy.Contains(proxyServiceName, services)
Contains(svc, services) == \E i \in 1..Len(services) : services[i] = svc

\* envoy.GetServiceCluster(clusterName, proxyServiceName): the remote cluster
GetServiceCluster(clusterName, proxyServiceName) ==
    [Name |-> clusterName, scope |-> "remote", service |-> proxyServiceName,
     resolved |-> TRUE]

\* getServiceClusterLocal(catalog, proxyServiceName, clusterName): one value, no error;
\* lookupOk is whether the catalog lookup filling in the local details succeeded
getServiceClusterLocal(lookupOk, proxyServiceName, clusterName) ==
    [Name |-> clusterName, scope |-> "local", service |-> proxyServiceName,
     resolved |-> lookupOk]

\* ptypes.MarshalAny on success: the object packed in the opaque envelope
MarshalAny(obj) == [any |-> obj]

NotReturned == [state |-> "none"]

----------------------------------------------------------------------------
(* Cluster Deduplicator: cds.uniques *)

RECURSIVE uniquesFrom(_, _, _)
\* the outer loop of uniques from entry i on, clusters being the result so far
uniquesFrom(sl, i, clusters) ==
    IF i > Len(sl) THEN clusters
    ELSE LET entry == sl[i]
             isPresent == \E k \in 1..Len(clusters) : clusters[k].Name = entry.Name
         IN uniquesFrom(sl, i + 1, IF ~isPresent THEN Append(clusters, entry) ELSE clusters)

RECURSIVE uniquesWholeEntryFrom(_, _, _)
uniquesWholeEntryFrom(sl, i, clusters) ==
    IF i > Len(sl) THEN clusters
    ELSE LET isPresent == \E k \in 1..Len(clusters) : clusters[k] = sl[i]
         IN uniquesWholeEntryFrom(sl, i + 1,
                IF ~isPresent THEN Append(clusters, sl[i]) ELSE clusters)

\* uniques comparing whole entries instead of names
uniquesWholeEntry(sl) == uniquesWholeEntryFrom(sl, 1, <<>>)

uniques(sl) == uniquesFrom(sl, 1, <<>>)

----------------------------------------------------------------------------
(* Cluster Resolver: the body of the policy loop of cds.NewResponse *)

\* the policy loop's body testing the destination role first
trafficPolicyClustersDestinationFirst(proxyServiceName, trafficPolicy, failed) ==
    IF Contains(proxyServiceName, trafficPolicy.Destination.Services)
      THEN [k \in 1..Len(trafficPolicy.Destination.Clusters) |->
              getServiceClusterLocal(k \notin failed, proxyServiceName,
                  trafficPolicy.Destination.Clusters[k] \o LocalClusterSuffix)]
    ELSE IF Contains(proxyServiceName, trafficPolicy.Source.Services)
      THEN [k \in 1..Len(trafficPolicy.Source.Clusters) |->
              GetServiceCluster(trafficPolicy.Source.Clusters[k], proxyServiceName)]
    ELSE <<>>

\* the policy loop's body naming a local cluster without the local suffix
trafficPolicyClustersNoSuffix(proxyServiceName, trafficPolicy, failed) ==
    IF Contains(proxyServiceName, trafficPolicy.Source.Services)
      THEN [k \in 1..Len(trafficPolicy.Source.Clusters) |->
              GetServiceCluster(trafficPolicy.Source.Clusters[k], proxyServiceName)]
    ELSE IF Contains(proxyServiceName, trafficPolicy.Destination.Services)
      THEN [k \in 1..Len(trafficPolicy.Destination.Clusters) |->
              getServiceClusterLocal(k \notin failed, proxyServiceName,
                  trafficPolicy.Destination.Clusters[k])]
    ELSE <<>>

\* the clusters one traffic policy appends to clusterFactories; failed is the set of
\* positions of Destination.Clusters whose local-cluster catalog lookup fails
trafficPolicyClusters(proxyServiceName, trafficPolicy, failed) ==
    LET isSourceService == Contains(proxyServiceName, trafficPolicy.Source.Services)
        isDestinationService == Contains(proxyServiceName, trafficPolicy.Destination.Services)
    IN IF isSourceService
         THEN [k \in 1..Len(trafficPolicy.Source.Clusters) |->
                 GetServiceCluster(trafficPolicy.Source.Clusters[k], proxyServiceName)]
       ELSE IF isDestinationService
         THEN [k \in 1..Len(trafficPolicy.Destination.Clusters) |->
                 getServiceClusterLocal(k \notin failed, proxyServiceName,
                     trafficPolicy.Destination.Clusters[k] \o LocalClusterSuffix)]
       ELSE <<>>

\* the positions at which a local-cluster lookup is made for this policy
localLookups(proxyServiceName, trafficPolicy) ==
    IF ~Contains(proxyServiceName, trafficPolicy.Source.Services)
       /\ Contains(proxyServiceName, trafficPolicy.Destination.Services)
      THEN 1..Len(trafficPolicy.Destination.Clusters)
      ELSE {}

----------------------------------------------------------------------------
(* Authorized-Source Resolver: lds.getFilterChainMatchServerNames *)

RECURSIVE sourceNamesFrom(_, _, _)
\* the inner loop over Source.Services from position j on; names is serverNames so far
\* (serverNamesMap holds exactly the strings of serverNames)
sourceNamesFrom(sources, j, names) ==
    IF j > Len(sources) THEN names
    ELSE LET server == \E k \in 1..Len(names) : names[k] = String(sources[j])
         IN sourceNamesFrom(sources, j + 1,
                IF ~server THEN Append(names, String(sources[j])) ELSE names)

RECURSIVE serverNamesFrom(_, _, _, _)
\* the outer loop over allTrafficPolicies from position i on
serverNamesFrom(proxyServiceName, allTrafficPolicies, i, names) ==
    IF i > Len(allTrafficPolicies) THEN names
    ELSE LET trafficPolicy == allTrafficPolicies[i]
             isDestinationService ==
                 Contains(proxyServiceName, trafficPolicy.Destination.Services)
         IN serverNamesFrom(proxyServiceName, allTrafficPolicies, i + 1,
                IF isDestinationService
                  THEN sourceNamesFrom(trafficPolicy.Source.Services, 1, names)
                  ELSE names)

RECURSIVE serverNamesNoSeenSetFrom(_, _, _, _)
serverNamesNoSeenSetFrom(proxyServiceName, allTrafficPolicies, i, names) ==
    IF i > Len(allTrafficPolicies) THEN names
    ELSE LET trafficPolicy == allTrafficPolicies[i]
         IN serverNamesNoSeenSetFrom(proxyServiceName, allTrafficPolicies, i + 1,
                IF Contains(proxyServiceName, trafficPolicy.Destination.Services)
                  THEN names \o [j \in 1..Len(trafficPolicy.Source.Services) |->
                                    String(trafficPolicy.Source.Services[j])]
                  ELSE names)

\* the resolver appending every source without consulting serverNamesMap
getFilterChainMatchServerNamesNoSeenSet(proxyServiceName, allTrafficPolicies) ==
    serverNamesNoSeenSetFrom(proxyServiceName, allTrafficPolicies, 1, <<>>)

RECURSIVE serverNamesSourceFirstFrom(_, _, _, _)
serverNamesSourceFirstFrom(proxyServiceName, allTrafficPolicies, i, names) ==
    IF i > Len(allTrafficPolicies) THEN names
    ELSE LET trafficPolicy == allTrafficPolicies[i]
         IN serverNamesSourceFirstFrom(proxyServiceName, allTrafficPolicies, i + 1,
                IF /\ ~Contains(proxyServiceName, trafficPolicy.Source.Services)
                   /\ Contains(proxyServiceName, trafficPolicy.Destination.Services)
                  THEN sourceNamesFrom(trafficPolicy.Source.Services, 1, names)
                  ELSE names)

\* the resolver with the role precedence of the cluster resolver: source role first
getFilterChainMatchServerNamesSourceFirst(proxyServiceName, allTrafficPolicies) ==
    serverNamesSourceFirstFrom(proxyServiceName, allTrafficPolicies, 1, <<>>)

getFilterChainMatchServerNames(proxyServiceName, allTrafficPolicies) ==
    serverNamesFrom(proxyServiceName, allTrafficPolicies, 1, <<>>)

----------------------------------------------------------------------------
(* Listener Builder: the objects lds.NewResponse constructs *)

\* getHTTPConnectionManager(routeConfig)
getHTTPConnectionManager(routeConfig) == [Rds |-> routeConfig]

\* envoy.GetDownstreamTLSContext(proxyServiceName)
GetDownstreamTLSContext(proxyServiceName) == [tlsFor |-> proxyServiceName]

\* A nil pointer field is the empty sequence, a set one the one-element sequence.
clientListener(clientConnManager) ==
    [Name |-> "outbound_listener",
     Address |-> "EnvoyOutboundListenerPort",
     FilterChains |-> <<
        [Filters |-> << [Name |-> "HTTPConnectionManager",
                         TypedConfig |-> clientConnManager] >>,
         FilterChainMatch |-> <<>>,
         TransportSocket |-> <<>>] >>]

\* the inbound listener with a FilterChainMatch only when there are server names
serverListenerMatchIfNames(serverConnManager, names, proxyServiceName) ==
    [Name |-> "inbound_listener",
     Address |-> "EnvoyInboundListenerPort",
     FilterChains |-> <<
        [Filters |-> << [Name |-> "HTTPConnectionManager",
                         TypedConfig |-> serverConnManager] >>,
         FilterChainMatch |-> IF names = <<>> THEN <<>> ELSE << [ServerNames |-> names] >>,
         TransportSocket |-> << [Name |-> "TransportSocketTLS",
                                 TypedConfig |-> GetDownstreamTLSContext(proxyServiceName)] >>] >>]

serverListener(serverConnManager, names, proxyServiceName) ==
    [Name |-> "inbound_listener",
     Address |-> "EnvoyInboundListenerPort",
     FilterChains |-> <<
        [Filters |-> << [Name |-> "HTTPConnectionManager",
                         TypedConfig |-> serverConnManager] >>,
         FilterChainMatch |-> << [ServerNames |-> names] >>,
         TransportSocket |-> << [Name |-> "TransportSocketTLS",
                                 TypedConfig |-> GetDownstreamTLSContext(proxyServiceName)] >>] >>]

----------------------------------------------------------------------------
(* Returning from NewResponse *)

\* return nil, err
ReturnErr(e) ==
    /\ ret' = [state |-> "err", err |-> e]
    /\ pc' = "done"

\* return resp, nil
ReturnResp(typeUrl, res) ==
    /\ ret' = [state |-> "ok", resp |-> [TypeUrl |-> typeUrl, Resources |-> res]]
    /\ pc' = "done"

----------------------------------------------------------------------------
(* cds.NewResponse, one action per step *)

\* catalog.ListTrafficRoutes(proxyServiceName) and its error return
CDSListTrafficRoutes ==
    /\ kind = "idle"
    /\ kind' = "CDS"
    /\ IF catalogErr
         THEN /\ ReturnErr("ListTrafficRoutes")
              /\ UNCHANGED idx
         ELSE /\ pc' = "policies"
              /\ idx' = 1
              /\ UNCHANGED ret
    /\ UNCHANGED <<proxy, policies, catalogErr, clusterFactories, lookupFailed, serverNames,
                   listeners, connManagers, resources, marshalLog, cancelled>>
    /\ UNCHANGED <<uniquesVars, injectVars>>

\* one iteration of: for _, trafficPolicies := range allTrafficPolicies
CDSPolicy ==
    /\ kind = "CDS"
    /\ pc = "policies"
    /\ idx <= Len(policies)
    /\ \E failed \in SUBSET localLookups(proxy, policies[idx]) :
         /\ clusterFactories' =
                clusterFactories \o trafficPolicyClusters(proxy, policies[idx], failed)
         /\ lookupFailed' = (lookupFailed \/ failed # {})
    /\ idx' = idx + 1
    /\ UNCHANGED <<proxy, policies, catalogErr, kind, pc, serverNames, listeners,
                   connManagers, resources, marshalLog, ret, cancelled>>
    /\ UNCHANGED <<uniquesVars, injectVars>>

\* clusterFactories = uniques(clusterFactories), once the policy loop has ended
CDSUniques ==
    /\ kind = "CDS"
    /\ pc = "policies"
    /\ idx > Len(policies)
    /\ clusterFactories' = uniques(clusterFactories)
    /\ pc' = "marshal"
    /\ idx' = 1
    /\ UNCHANGED <<proxy, policies, catalogErr, kind, lookupFailed, serverNames, listeners,
                   connManagers, resources, marshalLog, ret, cancelled>>
    /\ UNCHANGED <<uniquesVars, injectVars>>

\* one iteration of the marshal loop: MarshalAny succeeds and the resource is appended
CDSMarshalOk ==
    /\ kind = "CDS"
    /\ pc = "marshal"
    /\ idx <= Len(clusterFactories)
    /\ marshalLog' = Append(marshalLog, "ok")
    /\ resources' = Append(resources, MarshalAny(clusterFactories[idx]))
    /\ idx' = idx + 1
    /\ UNCHANGED <<proxy, policies, catalogErr, kind, pc, clusterFactories, lookupFailed,
                   serverNames, listeners, connManagers, ret, cancelled>>
    /\ UNCHANGED <<uniquesVars, injectVars>>

\* the marshal loop skipping a cluster that fails to marshal instead of returning
CDSMarshalErrSkip ==
    /\ kind = "CDS"
    /\ pc = "marshal"
    /\ idx <= Len(clusterFactories)
    /\ marshalLog' = Append(marshalLog, "err")
    /\ idx' = idx + 1
    /\ UNCHANGED <<proxy, policies, catalogErr, kind, pc, clusterFactories, lookupFailed,
                   serverNames, listeners, connManagers, resources, ret, cancelled>>
    /\ UNCHANGED <<uniquesVars, injectVars>>

\* one iteration of the marshal loop: MarshalAny fails, return nil, err
CDSMarshalErr ==
    /\ kind = "CDS"
    /\ pc = "marshal"
    /\ idx <= Len(clusterFactories)
    /\ marshalLog' = Append(marshalLog, "err")
    /\ ReturnErr("MarshalAny")
    /\ UNCHANGED <<proxy, policies, catalogErr, kind, idx, clusterFactories, lookupFailed,
                   serverNames, listeners, connManagers, resources, cancelled>>
    /\ UNCHANGED <<uniquesVars, injectVars>>

\* return resp, nil
CDSReturn ==
    /\ kind = "CDS"
    /\ pc = "marshal"
    /\ idx > Len(clusterFactories)
    /\ ReturnResp("TypeCDS", resources)
    /\ UNCHANGED <<proxy, policies, catalogErr, kind, idx, clusterFactories, lookupFailed,
                   serverNames, listeners, connManagers, resources, marshalLog, cancelled>>
    /\ UNCHANGED <<uniquesVars, injectVars>>

----------------------------------------------------------------------------
(* lds.NewResponse, one action per step *)

\* MarshalAny(getHTTPConnectionManager(route.OutboundRouteConfig)) succeeds;
\* clientListener is built
LDSClientConnManagerOk ==
    /\ kind = "idle"
    /\ kind' = "LDS"
    /\ marshalLog' = Append(marshalLog, "ok")
    /\ connManagers' = <<MarshalAny(getHTTPConnectionManager("OutboundRouteConfig"))>>
    /\ listeners' = <<clientListener(connManagers'[1])>>
    /\ pc' = "serverConnManager"
    /\ UNCHANGED <<proxy, policies, catalogErr, idx, clusterFactories, lookupFailed,
                   serverNames, resources, ret, cancelled>>
    /\ UNCHANGED <<uniquesVars, injectVars>>

LDSClientConnManagerErr ==
    /\ kind = "idle"
    /\ kind' = "LDS"
    /\ marshalLog' = Append(marshalLog, "err")
    /\ ReturnErr("MarshalAny")
    /\ UNCHANGED <<proxy, policies, catalogErr, idx, clusterFactories, lookupFailed,
                   serverNames, listeners, connManagers, resources, cancelled>>
    /\ UNCHANGED <<uniquesVars, injectVars>>

\* MarshalAny(getHTTPConnectionManager(route.InboundRouteConfig)) succeeds
LDSServerConnManagerOk ==
    /\ kind = "LDS"
    /\ pc = "serverConnManager"
    /\ marshalLog' = Append(marshalLog, "ok")
    /\ connManagers' =
           Append(connManagers, MarshalAny(getHTTPConnectionManager("InboundRouteConfig")))
    /\ pc' = "serverNames"
    /\ UNCHANGED <<proxy, policies, catalogErr, kind, idx, clusterFactories, lookupFailed,
                   serverNames, listeners, resources, ret, cancelled>>
    /\ UNCHANGED <<uniquesVars, injectVars>>

LDSServerConnManagerErr ==
    /\ kind = "LDS"
    /\ pc = "serverConnManager"
    /\ marshalLog' = Append(marshalLog, "err")
    /\ ReturnErr("MarshalAny")
    /\ UNCHANGED <<proxy, policies, catalogErr, kind, idx, clusterFactories, lookupFailed,
                   serverNames, listeners, connManagers, resources, cancelled>>
    /\ UNCHANGED <<uniquesVars, injectVars>>

\* serverNames, err := getFilterChainMatchServerNames(proxyServiceName, catalog);
\* serverListener is built
LDSServerNames ==
    /\ kind = "LDS"
    /\ pc = "serverNames"
    /\ IF catalogErr
         THEN /\ ReturnErr("ListTrafficRoutes")
              /\ UNCHANGED <<serverNames, listeners>>
         ELSE /\ serverNames' = getFilterChainMatchServerNames(proxy, policies)
              /\ listeners' =
                     Append(listeners, serverListener(connManagers[2], serverNames', proxy))
              /\ pc' = "marshalOutbound"
              /\ UNCHANGED ret
    /\ UNCHANGED <<proxy, policies, catalogErr, kind, idx, clusterFactories, lookupFailed,
                   connManagers, resources, marshalLog, cancelled>>
    /\ UNCHANGED <<uniquesVars, injectVars>>

\* MarshalAny(clientListener) succeeds and is appended to resp.Resources
LDSMarshalOutboundOk ==
    /\ kind = "LDS"
    /\ pc = "marshalOutbound"
    /\ marshalLog' = Append(marshalLog, "ok")
    /\ resources' = Append(resources, MarshalAny(listeners[1]))
    /\ pc' = "marshalInbound"
    /\ UNCHANGED <<proxy, policies, catalogErr, kind, idx, clusterFactories, lookupFailed,
                   serverNames, listeners, connManagers, ret, cancelled>>
    /\ UNCHANGED <<uniquesVars, injectVars>>

LDSMarshalOutboundErr ==
    /\ kind = "LDS"
    /\ pc = "marshalOutbound"
    /\ marshalLog' = Append(marshalLog, "err")
    /\ ReturnErr("MarshalAny")
    /\ UNCHANGED <<proxy, policies, catalogErr, kind, idx, clusterFactories, lookupFailed,
                   serverNames, listeners, connManagers, resources, cancelled>>
    /\ UNCHANGED <<uniquesVars, injectVars>>

\* MarshalAny(serverListener) succeeds, is appended, and resp is returned
LDSMarshalInboundOk ==
    /\ kind = "LDS"
    /\ pc = "marshalInbound"
    /\ marshalLog' = Append(marshalLog, "ok")
    /\ resources' = Append(resources, MarshalAny(listeners[2]))
    /\ ReturnResp("TypeLDS", resources')
    /\ UNCHANGED <<proxy, policies, catalogErr, kind, idx, clusterFactories, lookupFailed,
                   serverNames, listeners, connManagers, cancelled>>
    /\ UNCHANGED <<uniquesVars, injectVars>>

LDSMarshalInboundErr ==
    /\ kind = "LDS"
    /\ pc = "marshalInbound"
    /\ marshalLog' = Append(marshalLog, "err")
    /\ ReturnErr("MarshalAny")
    /\ UNCHANGED <<proxy, policies, catalogErr, kind, idx, clusterFactories, lookupFailed,
                   serverNames, listeners, connManagers, resources, cancelled>>
    /\ UNCHANGED <<uniquesVars, injectVars>>

----------------------------------------------------------------------------
(* The caller cancels ctx while the call has not completed *)

Cancel ==
    /\ pc # "done"
    /\ ~cancelled
    /\ cancelled' = TRUE
    /\ UNCHANGED <<proxy, policies, catalogErr, kind, pc, idx, clusterFactories,
                   lookupFailed, serverNames, listeners, connManagers, resources,
                   marshalLog, ret>>
    /\ UNCHANGED <<uniquesVars, injectVars>>

----------------------------------------------------------------------------
(* Discovery: one NewResponse call, CDS or LDS, for one proxy and one catalog state *)

IdleUniques == slice = <<>> /\ uniqOut = <<>>

IdleInject ==
    /\ namespace = "default"
    /\ monitored = {}
    /\ annotations = [k \in {} |-> <<>>]
    /\ injectRet = <<>>

IdleXds ==
    /\ kind = "idle"
    /\ pc = "start"
    /\ idx = 1
    /\ clusterFactories = <<>>
    /\ lookupFailed = FALSE
    /\ serverNames = <<>>
    /\ listeners = <<>>
    /\ connManagers = <<>>
    /\ resources = <<>>
    /\ marshalLog = <<>>
    /\ ret = NotReturned
    /\ cancelled = FALSE

Init ==
    /\ proxy \in Services
    /\ catalogErr \in BOOLEAN
    /\ policies \in IF catalogErr THEN {<<>>} ELSE TrafficPolicyLists(MaxWeight)
    /\ IdleXds
    /\ IdleUniques
    /\ IdleInject

Next ==
    \/ CDSListTrafficRoutes
    \/ CDSPolicy
    \/ CDSUniques
    \/ CDSMarshalOk
    \/ CDSMarshalErr
    \/ CDSReturn
    \/ LDSClientConnManagerOk
    \/ LDSClientConnManagerErr
    \/ LDSServerConnManagerOk
    \/ LDSServerConnManagerErr
    \/ LDSServerNames
    \/ LDSMarshalOutboundOk
    \/ LDSMarshalOutboundErr
    \/ LDSMarshalInboundOk
    \/ LDSMarshalInboundErr
    \/ Cancel

Spec == Init /\ [][Next]_vars

----------------------------------------------------------------------------
(* The Cluster Deduplicator on its own: uniques applied to any slice, and again to
   its own output *)

\* clusters of the same Name that differ in another field
UniquesClusters == {GetServiceCluster(n, svc) : n \in ClusterNames, svc \in Services}

\* clusters = uniques(slice)
UniquesCall ==
    /\ uniqOut = <<>>
    /\ uniqOut' = <<uniques(slice)>>
    /\ UNCHANGED <<slice, xdsVars, injectVars>>

\* clusters = uniques(clusters)
UniquesAgain ==
    /\ Len(uniqOut) = 1
    /\ uniqOut' = Append(uniqOut, uniques(uniqOut[1]))
    /\ UNCHANGED <<slice, xdsVars, injectVars>>

InitUniques ==
    /\ slice \in SeqsUpTo(UniquesClusters, MaxSlice)
    /\ uniqOut = <<>>
    /\ proxy = svcA
    /\ catalogErr = FALSE
    /\ policies = <<>>
    /\ IdleXds
    /\ IdleInject

NextUniques ==
    \/ UniquesCall
    \/ UniquesAgain

SpecUniques == InitUniques /\ [][NextUniques]_vars

----------------------------------------------------------------------------
(* The sidecar injector's decision: injector.mustInject *)

\* a string is the sequence of its characters
annotationInject ==
    <<"o","p","e","n","s","e","r","v","i","c","e","m","e","s","h",".","i","o","/",
      "s","i","d","e","c","a","r","-","i","n","j","e","c","t","i","o","n">>

otherAnnotation == <<"a","p","p">>

\* metav1.NamespaceSystem, metav1.NamespacePublic
kubeSystemNamespaces == {"kube-system", "kube-public"}

Namespaces == kubeSystemNamespaces \cup {"default", "bookstore"}

upperCase == <<"A","B","C","D","E","F","G","H","I","J","K","L","M",
               "N","O","P","Q","R","S","T","U","V","W","X","Y","Z">>
lowerCase == <<"a","b","c","d","e","f","g","h","i","j","k","l","m",
               "n","o","p","q","r","s","t","u","v","w","x","y","z">>

\* strings.ToLower
ToLower(str) ==
    [i \in 1..Len(str) |->
        IF \E k \in 1..Len(upperCase) : upperCase[k] = str[i]
          THEN lowerCase[CHOOSE k \in 1..Len(upperCase) : upperCase[k] = str[i]]
          ELSE str[i]]

AnnotationValues ==
    { <<>>,
      <<"e","n","a","b","l","e","d">>, <<"E","n","a","b","l","e","d">>,
      <<"y","e","s">>, <<"Y","E","S">>, <<"y","E","s">>,
      <<"t","r","u","e">>, <<"T","r","u","e">>,
      <<"d","i","s","a","b","l","e","d">>, <<"D","I","S","A","B","L","E","D">>,
      <<"n","o">>, <<"N","o">>,
      <<"f","a","l","s","e">>, <<"F","a","l","s","E">>,
      <<"m","a","y","b","e">>, <<"o","n">>, <<"1">>, <<"Y">>, <<"y","e","s"," ">> }

NoAnnotations == [k \in {} |-> <<>>]

PodAnnotations ==
    {NoAnnotations}
      \cup {[k \in {otherAnnotation} |-> v] : v \in {<<"m","a","y","b","e">>}}
      \cup {[k \in {annotationInject} |-> v] : v \in AnnotationValues}

\* pod.ObjectMeta.Annotations[key]: the zero value "" for a missing key
annotation(podAnnotations, key) ==
    IF key \in DOMAIN podAnnotations THEN podAnnotations[key] ELSE <<>>

\* wh.namespaceController.IsMonitoredNamespace(namespace)
IsMonitoredNamespace(ns) == ns \in monitored

isNamespaceAllowed(ns) ==
    IF ns \in kubeSystemNamespaces THEN FALSE ELSE IsMonitoredNamespace(ns)

\* (bool, error): err is whether the error is non-nil
mustInject(podAnnotations, ns) ==
    IF ~isNamespaceAllowed(ns) THEN [inject |-> FALSE, err |-> FALSE]
    ELSE LET inject == ToLower(annotation(podAnnotations, annotationInject))
         IN IF inject # <<>>
              THEN IF inject \in {<<"e","n","a","b","l","e","d">>, <<"y","e","s">>,
                                  <<"t","r","u","e">>}
                     THEN [inject |-> TRUE, err |-> FALSE]
                   ELSE IF inject \in {<<"d","i","s","a","b","l","e","d">>, <<"n","o">>,
                                       <<"f","a","l","s","e">>}
                     THEN [inject |-> FALSE, err |-> FALSE]
                   ELSE [inject |-> FALSE, err |-> TRUE]
              ELSE [inject |-> TRUE, err |-> FALSE]

\* inject, err := wh.mustInject(&pod, req.Namespace)
MustInjectCall ==
    /\ injectRet = <<>>
    /\ injectRet' = <<mustInject(annotations, namespace)>>
    /\ UNCHANGED <<namespace, monitored, annotations, xdsVars, uniquesVars>>

InitInject ==
    /\ namespace \in Namespaces
    /\ monitored \in SUBSET Namespaces
    /\ annotations \in PodAnnotations
    /\ injectRet = <<>>
    /\ proxy = svcA
    /\ catalogErr = FALSE
    /\ policies = <<>>
    /\ IdleXds
    /\ IdleUniques

NextInject == MustInjectCall

SpecInject == InitInject /\ [][NextInject]_vars

----------------------------------------------------------------------------
(* Properties *)

isSource(i) == Contains(proxy, policies[i].Source.Services)
isDestination(i) == Contains(proxy, policies[i].Destination.Services)

\* the step of cds.NewResponse that processes policy idx
PolicyStep == kind = "CDS" /\ pc = "policies" /\ idx <= Len(policies) /\ idx' = idx + 1

\* what that step appends to clusterFactories
Appended == SubSeq(clusterFactories', Len(clusterFactories) + 1, Len(clusterFactories'))

\* positions of sl holding the first entry of their Name
FirstOfName(sl) == {i \in 1..Len(sl) : \A j \in 1..(i - 1) : sl[j].Name # sl[i].Name}

\* C1: uniques returns exactly the first entry of each distinct Name, in input order:
\* no two output entries share a Name, every input Name is in the output, a later
\* entry of a seen Name is dropped whatever its other fields, and uniques applied to
\* its own output returns that output.
C1_UniquesFirstOfEachName ==
    /\ Len(uniqOut) >= 1 =>
         LET out == uniqOut[1]
             first == FirstOfName(slice)
         IN /\ Len(out) = Cardinality(first)
            /\ \A i \in first : out[Cardinality({j \in first : j <= i})] = slice[i]
            /\ \A a, b \in 1..Len(out) : out[a].Name = out[b].Name => a = b
            /\ {slice[i].Name : i \in 1..Len(slice)} = {out[k].Name : k \in 1..Len(out)}
    /\ Len(uniqOut) = 2 => uniqOut[2] = uniqOut[1]

\* uniques ran twice on a slice in which a Name recurs with other fields
C1_Witness ==
    /\ Len(uniqOut) = 2
    /\ Len(uniqOut[1]) = 2
    /\ \E i, j \in 1..Len(slice) :
         i < j /\ slice[i].Name = slice[j].Name /\ slice[i] # slice[j]

\* C2: a policy naming the proxy in both Source.Services and Destination.Services
\* appends to clusterFactories one remote cluster per entry of Source.Clusters, in
\* order, and no local (suffixed) cluster of Destination.Clusters.
C2_SourcePrecedence ==
    [][ (PolicyStep /\ isSource(idx) /\ isDestination(idx)) =>
          LET tp == policies[idx]
          IN /\ Len(clusterFactories') = Len(clusterFactories) + Len(tp.Source.Clusters)
             /\ SubSeq(clusterFactories', 1, Len(clusterFactories)) = clusterFactories
             /\ \A k \in 1..Len(tp.Source.Clusters) :
                  Appended[k] = GetServiceCluster(tp.Source.Clusters[k], proxy)
             /\ \A k \in 1..Len(Appended) : Appended[k].scope # "local"
             /\ lookupFailed' = lookupFailed ]_vars

\* a policy naming the proxy on both sides, with clusters on both sides, was processed
C2_Witness ==
    /\ kind = "CDS"
    /\ pc = "policies"
    /\ idx > 1
    /\ isSource(idx - 1)
    /\ isDestination(idx - 1)
    /\ policies[idx - 1].Source.Clusters # <<>>
    /\ policies[idx - 1].Destination.Clusters # <<>>
    /\ policies[idx - 1].Destination.Clusters # policies[idx - 1].Source.Clusters

\* the policy list [P1, P2] of the scenario, for proxy svcA
Scenario1 ==
    /\ proxy = svcA
    /\ Len(policies) = 2
    /\ policies[1].Source.Services = <<svcA>>
    /\ policies[1].Source.Clusters = <<"c1">>
    /\ policies[2].Source.Services = <<svcB>>
    /\ policies[2].Destination.Services = <<svcA>>
    /\ policies[2].Destination.Clusters = <<"c1">>

\* cds.NewResponse has built its cluster list (uniques has run)
ClustersBuilt == kind = "CDS" /\ pc \in {"marshal", "done"} /\ ~catalogErr

\* C3 as stated: in the scenario the cluster list is exactly [remoteCluster(c1, svcA)].
C3_OnlyRemoteCluster ==
    (Scenario1 /\ ClustersBuilt) => clusterFactories = <<GetServiceCluster("c1", svcA)>>

\* C3 amended: in the scenario the cluster list is exactly the remote cluster of c1
\* followed by the local cluster of c1, which carries the local suffix in its name; a
\* returned response holds these two, marshalled, in this order.
C3_RemoteThenLocalCluster ==
    (Scenario1 /\ ClustersBuilt) =>
        /\ Len(clusterFactories) = 2
        /\ clusterFactories[1] = GetServiceCluster("c1", svcA)
        /\ clusterFactories[2].Name = "c1" \o LocalClusterSuffix
        /\ clusterFactories[2].Name # "c1"
        /\ clusterFactories[2].scope = "local"
        /\ clusterFactories[2].service = svcA
        /\ ret.state = "ok" =>
             ret.resp.Resources = <<MarshalAny(clusterFactories[1]),
                                    MarshalAny(clusterFactories[2])>>

\* the scenario's response was returned
C3_Witness == Scenario1 /\ kind = "CDS" /\ pc = "done" /\ ret.state = "ok"

\* lds.NewResponse has computed serverNames and built the inbound listener
ServerNamesBuilt == kind = "LDS" /\ Len(listeners) = 2

\* <<i, j>>: source j of a policy i in which the proxy is a destination
AuthorizedSources ==
    {<<i, j>> \in (1..Len(policies)) \X (1..MaxWeight) :
        isDestination(i) /\ j <= Len(policies[i].Source.Services)}

sourceString(ij) == String(policies[ij[1]].Source.Services[ij[2]])

\* policy order, then service order within a policy
Earlier(a, b) == a[1] < b[1] \/ (a[1] = b[1] /\ a[2] < b[2])

FirstSeen == {a \in AuthorizedSources :
                 \A b \in AuthorizedSources : sourceString(b) = sourceString(a) => ~Earlier(b, a)}

\* C4: serverNames is exactly the strings of the Source.Services of the policies whose
\* Destination.Services contain the proxy, in first-seen order, each once; it is the
\* ServerNames of the inbound listener's FilterChainMatch.
C4_ServerNamesFirstSeen ==
    ServerNamesBuilt =>
        /\ Len(serverNames) = Cardinality(FirstSeen)
        /\ \A a \in FirstSeen :
             serverNames[Cardinality({b \in FirstSeen : Earlier(b, a) \/ b = a})]
                 = sourceString(a)
        /\ \A m, n \in 1..Len(serverNames) : serverNames[m] = serverNames[n] => m = n
        /\ Range(serverNames) = {sourceString(a) : a \in AuthorizedSources}
        /\ listeners[2].FilterChains[1].FilterChainMatch[1].ServerNames = serverNames

\* a source named by two destination-matching policies, and a source of a policy in
\* which the proxy is no destination that is left out
C4_Witness ==
    /\ ServerNamesBuilt
    /\ ret.state = "ok"
    /\ \E a, b \in AuthorizedSources : a[1] < b[1] /\ sourceString(a) = sourceString(b)
    /\ \E i \in 1..Len(policies) :
         /\ ~isDestination(i)
         /\ \E j \in 1..Len(policies[i].Source.Services) :
              String(policies[i].Source.Services[j]) \notin Range(serverNames)

\* C5: a successful LDS response holds exactly two resources, the outbound listener
\* then the inbound listener; the outbound listener's one filter chain has no
\* FilterChainMatch and no TransportSocket and uses the outbound route table; the
\* inbound listener's one filter chain has both, a TLS socket, and uses the inbound
\* route table.
C5_TwoListeners ==
    (kind = "LDS" /\ ret.state = "ok") =>
        /\ ret.resp.TypeUrl = "TypeLDS"
        /\ Len(ret.resp.Resources) = 2
        /\ LET outbound == ret.resp.Resources[1].any
               inbound == ret.resp.Resources[2].any
           IN /\ outbound.Name = "outbound_listener"
              /\ Len(outbound.FilterChains) = 1
              /\ outbound.FilterChains[1].FilterChainMatch = <<>>
              /\ outbound.FilterChains[1].TransportSocket = <<>>
              /\ Len(outbound.FilterChains[1].Filters) = 1
              /\ outbound.FilterChains[1].Filters[1].TypedConfig.any.Rds = "OutboundRouteConfig"
              /\ inbound.Name = "inbound_listener"
              /\ Len(inbound.FilterChains) = 1
              /\ Len(inbound.FilterChains[1].FilterChainMatch) = 1
              /\ Len(inbound.FilterChains[1].TransportSocket) = 1
              /\ inbound.FilterChains[1].TransportSocket[1].Name = "TransportSocketTLS"
              /\ Len(inbound.FilterChains[1].Filters) = 1
              /\ inbound.FilterChains[1].Filters[1].TypedConfig.any.Rds = "InboundRouteConfig"

\* an LDS response was returned for an empty policy set
C5_Witness == kind = "LDS" /\ ret.state = "ok" /\ policies = <<>> /\ ~catalogErr

\* C6: when ListTrafficRoutes or a MarshalAny fails, NewResponse (CDS or LDS) returns
\* the error and no response; nothing is marshalled after the first failure; a
\* returned response holds every resource, never a subset.
C6_AbortOnFirstError ==
    /\ ret.state = "err" => (pc = "done" /\ DOMAIN ret = {"state", "err"})
    /\ \A k \in 1..Len(marshalLog) :
         marshalLog[k] = "err" => (k = Len(marshalLog) /\ ret.state = "err")
    /\ (catalogErr /\ (kind = "CDS" \/ (kind = "LDS" /\ pc \in {"marshalOutbound",
                                                                  "marshalInbound", "done"})))
         => ret.state = "err"
    /\ ret.state = "ok" =>
         /\ pc = "done"
         /\ ret.resp.Resources = resources
         /\ Len(resources) = IF kind = "CDS" THEN Len(clusterFactories) ELSE 2
         /\ Len(marshalLog) = IF kind = "CDS" THEN Len(clusterFactories) ELSE 4

\* the second cluster failed to marshal after the first had been appended
C6_Witness ==
    /\ kind = "CDS"
    /\ marshalLog = <<"ok", "err">>
    /\ Len(resources) = 1
    /\ Len(clusterFactories) >= 2
    /\ pc = "done"

\* C7 as stated: a call during which a local-cluster catalog lookup failed returns an
\* error and no response, never a cluster list.
C7_LookupFailureAborts ==
    (kind = "CDS" /\ lookupFailed /\ pc = "done") => ret.state = "err"

\* C8 as stated: a call whose ctx was cancelled before it completed returns no response.
C8_CancelledReturnsNoResponse ==
    (pc = "done" /\ cancelled) => ret.state # "ok"

\* the lower-cased sidecar-injection annotation of the pod
injectAnnotation == ToLower(annotation(annotations, annotationInject))

enabledValues == {<<"e","n","a","b","l","e","d">>, <<"y","e","s">>, <<"t","r","u","e">>}
disabledValues == {<<"d","i","s","a","b","l","e","d">>, <<"n","o">>, <<"f","a","l","s","e">>}

\* C9 as stated: mustInject returns true for a monitored, non-system namespace and an
\* annotation that is absent or enabled/yes/true in any case; false without error for
\* an unmonitored namespace or an annotation disabled/no/false; and an error whenever
\* the annotation has any other non-empty value.
C9_MustInjectAsDocumented ==
    injectRet # <<>> =>
        LET r == injectRet[1]
        IN /\ (/\ namespace \in monitored
               /\ namespace \notin kubeSystemNamespaces
               /\ (annotationInject \notin DOMAIN annotations
                     \/ injectAnnotation \in enabledValues))
                => (r.inject /\ ~r.err)
           /\ (namespace \notin monitored \/ injectAnnotation \in disabledValues)
                => (~r.inject /\ ~r.err)
           /\ (injectAnnotation # <<>> /\ injectAnnotation \notin enabledValues \cup disabledValues)
                => r.err

\* C10: source-first precedence is not applied in LDS: for a policy naming the proxy
\* in both Source.Services and Destination.Services, serverNames holds the string of
\* every source of that policy, the proxy's own among them, while the step of CDS
\* that processes the same policy appends no local cluster.
C10_PrecedenceOnlyInCDS ==
    /\ [](ServerNamesBuilt =>
            \A i \in 1..Len(policies) :
               (isSource(i) /\ isDestination(i)) =>
                   /\ String(proxy) \in Range(serverNames)
                   /\ \A j \in 1..Len(policies[i].Source.Services) :
                        String(policies[i].Source.Services[j]) \in Range(serverNames))
    /\ [][ (PolicyStep /\ isSource(idx) /\ isDestination(idx)) =>
             \A k \in 1..Len(Appended) :
                /\ Appended[k].scope = "remote"
                /\ \A m \in 1..Len(policies[idx].Destination.Clusters) :
                     Appended[k].Name # policies[idx].Destination.Clusters[m] \o LocalClusterSuffix
         ]_vars

\* an LDS response whose server names hold the proxy itself, for a policy list whose
\* only destination-matching policy also names the proxy as a source and has
\* destination clusters, so that CDS emits no local cluster for it
C10_Witness ==
    /\ ServerNamesBuilt
    /\ ret.state = "ok"
    /\ String(proxy) \in Range(serverNames)
    /\ \E i \in 1..Len(policies) :
         /\ isSource(i)
         /\ isDestination(i)
         /\ policies[i].Destination.Clusters # <<>>
         /\ Len(policies[i].Source.Services) >= 2
         /\ \A n \in 1..Len(policies) : isDestination(n) => n = i

====
